---- MODULE Spec2Model ----
(***************************************************************************)
(* Model of the meeting action-item bot (src/bot.py): the partition of     *)
(* action items, the Block Kit checklist renderer, the checklist reducer   *)
(* and the Slack handlers that post and update the checklist message.      *)
(*                                                                         *)
(* Python strings are sequences of one-character strings, so that          *)
(* startswith, the \bkatie\b search, json.dumps and json.loads are         *)
(* computed on characters.  A few fixed literals of the source that the    *)
(* code only ever copies or compares as a whole prefix ("meeting_title_",  *)
(* the label texts, the formatted date) are kept as one element.           *)
(***************************************************************************)
EXTENDS Integers, Sequences, FiniteSets, TLC

(***************************************************************************)
(* Bounds of the model.                                                    *)
(***************************************************************************)
\* meetings of today that yielded action items
MaxGroups == 2
\* action items of today, over all meetings
MaxItems == 3
\* checkbox interactions a user performs on the message
MaxEvents == 2
\* transcript lines of one meeting file
MaxLines == 4

\* half days that the clock of the sync model advances
MaxClock == 3

(***************************************************************************)
(* Characters and strings.                                                 *)
(***************************************************************************)
LowerSeq ==
  << "a", "b", "c", "d", "e", "f", "g", "h", "i", "j", "k", "l", "m",
     "n", "o", "p", "q", "r", "s", "t", "u", "v", "w", "x", "y", "z" >>

UpperSeq ==
  << "A", "B", "C", "D", "E", "F", "G", "H", "I", "J", "K", "L", "M",
     "N", "O", "P", "Q", "R", "S", "T", "U", "V", "W", "X", "Y", "Z" >>

DigitSeq == << "0", "1", "2", "3", "4", "5", "6", "7", "8", "9" >>

Range(f) == { f[x] : x \in DOMAIN f }

\* the one non-ASCII letter of the model's alphabet (U+00E9)
EAcute == "e-acute"

\* \w of a Python str pattern: alphanumerics (Unicode ones too) and "_"
IsWordChar(c) ==
  c \in Range(LowerSeq) \cup Range(UpperSeq) \cup Range(DigitSeq) \cup {"_", EAcute}

\* str.lower() of one character (re.IGNORECASE compares case-folded)
ToLower(c) ==
  IF c \in Range(UpperSeq)
  THEN LowerSeq[CHOOSE i \in DOMAIN UpperSeq : UpperSeq[i] = c]
  ELSE c

\* s[i-1:].startswith(p): p occurs in s at position i (1-based)
MatchAt(s, i, p) ==
  /\ i >= 1
  /\ i + Len(p) - 1 <= Len(s)
  /\ \A j \in 1..Len(p) : s[i + j - 1] = p[j]

StartsWith(s, p) == MatchAt(s, 1, p)

\* str(n) for n >= 0
RECURSIVE IntToChars(_)
IntToChars(n) ==
  IF n < 10 THEN << DigitSeq[n + 1] >>
  ELSE Append(IntToChars(n \div 10), DigitSeq[(n % 10) + 1])

DigitVal(c) == (CHOOSE i \in DOMAIN DigitSeq : DigitSeq[i] = c) - 1

\* title_text.strip("*"): drop every leading and trailing "*"
RECURSIVE LStrip(_, _)
LStrip(s, c) == IF Len(s) > 0 /\ s[1] = c THEN LStrip(Tail(s), c) ELSE s

RECURSIVE RStrip(_, _)
RStrip(s, c) ==
  IF Len(s) > 0 /\ s[Len(s)] = c THEN RStrip(SubSeq(s, 1, Len(s) - 1), c) ELSE s

Strip(s, c) == RStrip(LStrip(s, c), c)

\* [x for x in s if Test(x)]
Filter(s, Test(_)) == SelectSeq(s, Test)

(***************************************************************************)
(* Python values that the JSON codec produces.                             *)
(***************************************************************************)
PyStr(s) == [kind |-> "str", s |-> s]
PyInt(n) == [kind |-> "int", n |-> n]
PyFloat(lit) == [kind |-> "float", lit |-> lit]
PyNone == [kind |-> "None"]
PyBool(b) == [kind |-> "bool", b |-> b]
PyList(items) == [kind |-> "list", items |-> items]
PyDict(keys, vals) == [kind |-> "dict", keys |-> keys, vals |-> vals]

Hashable(v) == v.kind \notin {"list", "dict"}

(***************************************************************************)
(* json.dumps of the option value {"m": m_idx, "i": i_idx, "text": item}.  *)
(***************************************************************************)
\* code points of the non-ASCII characters of the alphabet, as \uXXXX digits
CodePoints == << [c |-> EAcute, hex |-> << "0", "0", "e", "9" >>] >>

IsAscii(c) == \A k \in DOMAIN CodePoints : CodePoints[k].c # c

HexOf(c) == CodePoints[CHOOSE k \in DOMAIN CodePoints : CodePoints[k].c = c].hex
\* an encoder that escapes the quote only
EscapeCharQuoteOnly(c) == IF c = "\"" THEN << "\\", "\"" >> ELSE << c >>

\* encode_basestring_ascii of one character (ensure_ascii=True, the default)
EscapeChar(c) ==
  IF c = "\"" THEN << "\\", "\"" >>
  ELSE IF c = "\\" THEN << "\\", "\\" >>
  ELSE IF c = "\n" THEN << "\\", "n" >>
  ELSE IF c = "\r" THEN << "\\", "r" >>
  ELSE IF c = "\t" THEN << "\\", "t" >>
  ELSE IF ~IsAscii(c) THEN << "\\", "u" >> \o HexOf(c)
  ELSE << c >>

\* the first position from i on whose character satisfies Test, or Len(s) + 1
FirstAt(s, i, Test(_)) ==
  LET hits == { j \in i..Len(s) : Test(s[j]) }
  IN  IF hits = { } THEN Len(s) + 1 ELSE CHOOSE j \in hits : \A l \in hits : j <= l

NeedsEscape(c) == EscapeChar(c) # << c >>

\* the characters up to the next one that is escaped are copied as they are
RECURSIVE EscapeChars(_)
EscapeChars(s) ==
  LET j == FirstAt(s, 1, NeedsEscape)
  IN  IF j > Len(s) THEN s
      ELSE SubSeq(s, 1, j - 1) \o EscapeChar(s[j]) \o EscapeChars(SubSeq(s, j + 1, Len(s)))

JsonQuote(s) == << "\"" >> \o EscapeChars(s) \o << "\"" >>

\* json.dumps({"m": m, "i": i, "text": text}) with the default separators
DumpsOption(m, i, text) ==
  << "{" >> \o JsonQuote(<< "m" >>) \o << ":", " " >> \o IntToChars(m)
    \o << ",", " " >> \o JsonQuote(<< "i" >>) \o << ":", " " >> \o IntToChars(i)
    \o << ",", " " >> \o JsonQuote(<< "t", "e", "x", "t" >>) \o << ":", " " >>
    \o JsonQuote(text) \o << "}" >>

(***************************************************************************)
(* json.loads: a recursive-descent parser over the characters.  A parse    *)
(* step returns [ok, v, next]: whether a value was read, the value and the *)
(* position after it.  Every step hands what it has read to the next step  *)
(* as an argument.                                                         *)
(***************************************************************************)
JsonWs == { " ", "\t", "\n", "\r" }

HexDigits == Range(DigitSeq) \cup { "a", "b", "c", "d", "e", "f", "A", "B", "C", "D", "E", "F" }

ParseFail == [ok |-> FALSE, v |-> PyNone, next |-> 0]

Parsed(v, next) == [ok |-> TRUE, v |-> v, next |-> next]

RECURSIVE SkipWs(_, _)
SkipWs(s, i) == IF i <= Len(s) /\ s[i] \in JsonWs THEN SkipWs(s, i + 1) ELSE i

RECURSIVE SkipDigits(_, _)
SkipDigits(s, i) ==
  IF i <= Len(s) /\ s[i] \in Range(DigitSeq) THEN SkipDigits(s, i + 1) ELSE i

RECURSIVE DigitsValue(_, _, _, _)
DigitsValue(s, i, j, acc) ==
  IF i >= j THEN acc ELSE DigitsValue(s, i + 1, j, acc * 10 + DigitVal(s[i]))

\* the character a \uXXXX escape stands for; code points outside the
\* alphabet are kept as the escape text itself (distinct from every letter)
UnicodeChar(hex) ==
  IF \E k \in DOMAIN CodePoints : CodePoints[k].hex = hex
  THEN CodePoints[CHOOSE k \in DOMAIN CodePoints : CodePoints[k].hex = hex].c
  ELSE "U+" \o hex[1] \o hex[2] \o hex[3] \o hex[4]

SimpleEscapes == { "\"", "\\", "/", "b", "f", "n", "r", "t" }

Unescape(c) ==
  CASE c = "n" -> "\n"
    [] c = "r" -> "\r"
    [] c = "t" -> "\t"
    [] c = "b" -> "BS"
    [] c = "f" -> "\f"
    [] OTHER -> c

EndsPlainRun(c) == c \in { "\"", "\\", "\n", "\r", "\t" }

RECURSIVE ScanString(_, _, _)

\* the string body at its next quote or backslash, position j; a raw control
\* character ends the parse (strict mode)
ScanSpecial(s, j, got) ==
  IF s[j] = "\"" THEN Parsed(PyStr(got), j + 1)
  ELSE IF s[j] # "\\" \/ j + 1 > Len(s) THEN ParseFail
  ELSE IF s[j + 1] \in SimpleEscapes
    THEN ScanString(s, j + 2, Append(got, Unescape(s[j + 1])))
  ELSE IF /\ s[j + 1] = "u"
          /\ j + 5 <= Len(s)
          /\ \A k \in 2..5 : s[j + k] \in HexDigits
    THEN ScanString(s, j + 6, Append(got, UnicodeChar(SubSeq(s, j + 2, j + 5))))
  ELSE ParseFail

ScanRun(s, i, acc, j) ==
  IF j > Len(s) THEN ParseFail ELSE ScanSpecial(s, j, acc \o SubSeq(s, i, j - 1))

\* the body of a JSON string, from the character after the opening quote:
\* plain characters are copied up to the next quote, backslash or control
\* character
ScanString(s, i, acc) == ScanRun(s, i, acc, FirstAt(s, i, EndsPlainRun))

\* -?(0|[1-9]\d*)(\.\d+)?([eE][-+]?\d+)? read from i: st is the first digit,
\* en the end of the integer part, fr of the fraction, ex of the exponent
NumberRead(s, i, st, en, ex) ==
  IF en = st THEN ParseFail
  ELSE IF ex > en THEN Parsed(PyFloat(SubSeq(s, i, ex - 1)), ex)
  ELSE Parsed(PyInt(IF st > i THEN 0 - DigitsValue(s, st, en, 0)
                              ELSE DigitsValue(s, st, en, 0)), en)

ExponentEnd(fr, sg, d) == IF d > sg THEN d ELSE fr

NumberExponent(s, i, st, en, fr) ==
  IF fr <= Len(s) /\ s[fr] \in { "e", "E" }
  THEN IF fr + 1 <= Len(s) /\ s[fr + 1] \in { "-", "+" }
       THEN NumberRead(s, i, st, en, ExponentEnd(fr, fr + 2, SkipDigits(s, fr + 2)))
       ELSE NumberRead(s, i, st, en, ExponentEnd(fr, fr + 1, SkipDigits(s, fr + 1)))
  ELSE NumberRead(s, i, st, en, fr)

NumberFraction(s, i, st, en) ==
  IF en <= Len(s) /\ s[en] = "."
  THEN NumberExponent(s, i, st, en, ExponentEnd(en, en + 1, SkipDigits(s, en + 1)))
  ELSE NumberExponent(s, i, st, en, en)

NumberInteger(s, i, st) ==
  IF st <= Len(s) /\ s[st] = "0" THEN NumberFraction(s, i, st, st + 1)
  ELSE NumberFraction(s, i, st, SkipDigits(s, st))

ParseNumber(s, i) == NumberInteger(s, i, IF s[i] = "-" THEN i + 1 ELSE i)

JsonLiterals ==
  << [lit |-> << "n", "u", "l", "l" >>, v |-> PyNone],
     [lit |-> << "t", "r", "u", "e" >>, v |-> PyBool(TRUE)],
     [lit |-> << "f", "a", "l", "s", "e" >>, v |-> PyBool(FALSE)],
     [lit |-> << "N", "a", "N" >>, v |-> PyFloat(<< "N", "a", "N" >>)],
     [lit |-> << "I", "n", "f", "i", "n", "i", "t", "y" >>,
      v |-> PyFloat(<< "I", "n", "f" >>)],
     [lit |-> << "-", "I", "n", "f", "i", "n", "i", "t", "y" >>,
      v |-> PyFloat(<< "-", "I", "n", "f" >>)] >>

LiteralsAt(s, i) == { k \in DOMAIN JsonLiterals : MatchAt(s, i, JsonLiterals[k].lit) }

LiteralRead(i, found) ==
  Parsed(JsonLiterals[CHOOSE k \in found : TRUE].v,
         i + Len(JsonLiterals[CHOOSE k \in found : TRUE].lit))

RECURSIVE ParseValue(_, _)
RECURSIVE ParseElements(_, _, _)
RECURSIVE ParseMembers(_, _, _, _)

\* after an element of an array: "]" ends it, "," starts the next element
ElementNext(s, j, items) ==
  IF j > Len(s) THEN ParseFail
  ELSE IF s[j] = "]" THEN Parsed(PyList(items), j + 1)
  ELSE IF s[j] = "," THEN ParseElements(s, SkipWs(s, j + 1), items)
  ELSE ParseFail

ElementRead(s, r, items) ==
  IF r.ok THEN ElementNext(s, SkipWs(s, r.next), Append(items, r.v)) ELSE ParseFail

\* the elements of an array, i at the next element
ParseElements(s, i, items) == ElementRead(s, ParseValue(s, i), items)

\* after a member of an object: "}" ends it, "," starts the next member
MemberNext(s, j, keys, vals) ==
  IF j > Len(s) THEN ParseFail
  ELSE IF s[j] = "}" THEN Parsed(PyDict(keys, vals), j + 1)
  ELSE IF s[j] = "," THEN ParseMembers(s, SkipWs(s, j + 1), keys, vals)
  ELSE ParseFail

MemberRead(s, r, key, keys, vals) ==
  IF r.ok THEN MemberNext(s, SkipWs(s, r.next), Append(keys, key), Append(vals, r.v))
  ELSE ParseFail

MemberColon(s, c, key, keys, vals) ==
  IF c <= Len(s) /\ s[c] = ":"
  THEN MemberRead(s, ParseValue(s, SkipWs(s, c + 1)), key, keys, vals)
  ELSE ParseFail

MemberKey(s, key, keys, vals) ==
  IF key.ok THEN MemberColon(s, SkipWs(s, key.next), key.v.s, keys, vals) ELSE ParseFail

\* the members of an object, i at the next key
ParseMembers(s, i, keys, vals) ==
  IF i <= Len(s) /\ s[i] = "\"" THEN MemberKey(s, ScanString(s, i + 1, << >>), keys, vals)
  ELSE ParseFail

ObjectOpen(s, k) ==
  IF k <= Len(s) /\ s[k] = "}" THEN Parsed(PyDict(<< >>, << >>), k + 1)
  ELSE ParseMembers(s, k, << >>, << >>)

ArrayOpen(s, k) ==
  IF k <= Len(s) /\ s[k] = "]" THEN Parsed(PyList(<< >>), k + 1)
  ELSE ParseElements(s, k, << >>)

OtherValue(s, i, found) ==
  IF found # { } THEN LiteralRead(i, found) ELSE ParseNumber(s, i)

ParseValue(s, i) ==
  IF i > Len(s) THEN ParseFail
  ELSE IF s[i] = "\"" THEN ScanString(s, i + 1, << >>)
  ELSE IF s[i] = "{" THEN ObjectOpen(s, SkipWs(s, i + 1))
  ELSE IF s[i] = "[" THEN ArrayOpen(s, SkipWs(s, i + 1))
  ELSE OtherValue(s, i, LiteralsAt(s, i))

WholeDocument(val, r, end) == IF r.ok /\ end = Len(val) + 1 THEN r ELSE ParseFail

TrailingWs(val, r) == WholeDocument(val, r, IF r.ok THEN SkipWs(val, r.next) ELSE 0)

\* json.loads(val): [ok |-> FALSE] stands for json.JSONDecodeError
JsonLoads(val) == TrailingWs(val, ParseValue(val, SkipWs(val, 1)))

TextKey == << "t", "e", "x", "t" >>

\* parsed["text"]: the value, or the exception the subscript raises (a
\* repeated key keeps its last value)
SubscriptText(parsed) ==
  IF parsed.kind # "dict" THEN [exc |-> "TypeError", v |-> PyNone]
  ELSE IF \A k \in DOMAIN parsed.keys : parsed.keys[k] # TextKey
    THEN [exc |-> "KeyError", v |-> PyNone]
  ELSE [exc |-> "none",
        v |-> parsed.vals[CHOOSE k \in DOMAIN parsed.keys :
                            /\ parsed.keys[k] = TextKey
                            /\ \A l \in DOMAIN parsed.keys :
                                 parsed.keys[l] = TextKey => l <= k]]

TextOfLoaded(r) ==
  IF ~r.ok THEN [exc |-> "JSONDecodeError", v |-> PyNone] ELSE SubscriptText(r.v)

\* json.loads(val)["text"]: the value, or the exception the expression raises
LoadsText(val) == TextOfLoaded(JsonLoads(val))

(***************************************************************************)
(* Block Kit builders (src/bot.py).                                        *)
(***************************************************************************)
\* dict.get(key, default)
Get(d, key, default) == IF key \in DOMAIN d THEN d[key] ELSE default

Katie == << "k", "a", "t", "i", "e" >>

SelfTag == << "(", "m", "e", ")" >>

LowerOf(s) == [k \in DOMAIN s |-> ToLower(s[k])]

\* re.search(r'\bkatie\b', item, re.IGNORECASE) finds a match
ReSearchKatie(item) ==
  \E k \in 1..Len(item) :
    /\ MatchAt(LowerOf(item), k, Katie)
    /\ k = 1 \/ ~IsWordChar(item[k - 1])
    /\ k + Len(Katie) > Len(item) \/ ~IsWordChar(item[k + Len(Katie)])
\* a split that finds "katie" anywhere, not as a whole word
IsKatieItemAnywhere(item) ==
  StartsWith(item, SelfTag) \/ \E k \in 1..Len(item) : MatchAt(LowerOf(item), k, Katie)

\* the test of line 52: the item is one of Katie's
IsKatieItem(item) == StartsWith(item, SelfTag) \/ ReSearchKatie(item)

IsOtherItem(item) == ~IsKatieItem(item)

KatieOf(meeting) == Filter(meeting.items, IsKatieItem)

OtherOf(meeting) == Filter(meeting.items, IsOtherItem)

\* lines 56-59: the entry a meeting adds to a list, if it has items for it
Entry(title, items) ==
  IF items # << >> THEN << [title |-> title, items |-> items] >> ELSE << >>

RECURSIVE split_katie_items(_)

SplitOff(meeting, rest) ==
  [katie_items |-> Entry(meeting.title, KatieOf(meeting)) \o rest.katie_items,
   other_meetings |-> Entry(meeting.title, OtherOf(meeting)) \o rest.other_meetings]

split_katie_items(action_items_by_meeting) ==
  IF action_items_by_meeting = << >>
  THEN [katie_items |-> << >>, other_meetings |-> << >>]
  ELSE SplitOff(Head(action_items_by_meeting),
                split_katie_items(Tail(action_items_by_meeting)))

\* datetime.now().strftime('%B %d, %Y') on day d, kept as one element
StrfTime(d) == IF d = "posting day" THEN "January 05, 2026" ELSE "January 06, 2026"

Divider == [type |-> "divider"]

HeaderBlock(d) ==
  [type |-> "header",
   text |-> [type |-> "plain_text", text |-> << "Action Items - ", StrfTime(d) >>]]

Label(txt) == [type |-> "section", text |-> [type |-> "mrkdwn", text |-> << txt >>]]

YourLabel == Label("*Your action items:*")

OtherLabel == Label("*Other action items:*")

TitleId(m_idx) == << "meeting_title_" >> \o IntToChars(m_idx)

ActionsId(m_idx) == << "meeting_actions_" >> \o IntToChars(m_idx)

CheckboxId(m_idx) == << "done_checkbox_" >> \o IntToChars(m_idx)

TitleBlock(m_idx, title) ==
  [type |-> "section",
   block_id |-> TitleId(m_idx),
   text |-> [type |-> "mrkdwn", text |-> << "*" >> \o title \o << "*" >>]]

\* one option of the checkboxes of meeting m_idx (0-based indices, as enumerate)
Option(m_idx, i_idx, item) ==
  [text |-> [type |-> "mrkdwn", text |-> item],
   value |-> DumpsOption(m_idx, i_idx, item)]

ActionsBlock(m_idx, options) ==
  [type |-> "actions",
   block_id |-> ActionsId(m_idx),
   elements |-> << [type |-> "checkboxes",
                    action_id |-> CheckboxId(m_idx),
                    options |-> options] >>]
\* a renderer that numbers the meetings from 1
MeetingBlocksFromOne(m_idx, meeting) ==
  LET options == [k \in DOMAIN meeting.items |-> Option(m_idx + 1, k - 1, meeting.items[k])]
  IN  << TitleBlock(m_idx + 1, meeting.title),
         ActionsBlock(m_idx + 1, options), Divider >>

\* the blocks of one meeting in the loop of lines 98-125
MeetingBlocks(m_idx, meeting) ==
  LET options == [k \in DOMAIN meeting.items |-> Option(m_idx, k - 1, meeting.items[k])]
  IN  << TitleBlock(m_idx, meeting.title) >>
        \o (IF options # << >> THEN << ActionsBlock(m_idx, options) >> ELSE << >>)
        \o << Divider >>

RECURSIVE AllMeetingBlocks(_, _)
AllMeetingBlocks(all_meetings, k) ==
  IF k > Len(all_meetings) THEN << >>
  ELSE MeetingBlocks(k - 1, all_meetings[k]) \o AllMeetingBlocks(all_meetings, k + 1)

\* the section labels appended before the meetings (lines 81-96)
SectionLabels(katie, others) ==
  (IF katie # << >> THEN << YourLabel >> ELSE << >>)
    \o (IF others # << >> /\ katie # << >> THEN << Divider, OtherLabel >> ELSE << >>)

\* lines 68-127 once split_katie_items has returned parts
BlocksOf(parts, d) ==
  << HeaderBlock(d), Divider >>
    \o SectionLabels(parts.katie_items, parts.other_meetings)
    \o AllMeetingBlocks(parts.katie_items \o parts.other_meetings, 1)

build_interactive_blocks(action_items_by_meeting, d) ==
  BlocksOf(split_katie_items(action_items_by_meeting), d)

build_all_done_blocks(d) ==
  << [type |-> "section",
      text |-> [type |-> "mrkdwn",
                text |-> << "*All action items completed* - ", StrfTime(d),
                            " :white_check_mark:" >>]] >>

build_no_items_blocks(d) ==
  << [type |-> "section",
      text |-> [type |-> "mrkdwn",
                text |-> << "No action items from meetings today (", StrfTime(d),
                            ")." >>]] >>


(***************************************************************************)
(* The checklist reducer, rebuild_blocks_after_check (src/bot.py).         *)
(* A result is [exc, blocks]: the exception that escapes the function      *)
(* ("none" when it returns) and the blocks it returns.                     *)
(***************************************************************************)
Raise(exc) == [exc |-> exc, blocks |-> << >>]

Return(blocks) == [exc |-> "none", blocks |-> blocks]
\* a filter that keeps every option
PickAll(seq, keep) == seq

\* a filter that returns the kept options last first
PickReversed(seq, keep) ==
  LET F[k \in 0..Len(seq)] ==
        IF k = 0 THEN << >>
        ELSE IF k \in keep THEN << seq[k] >> \o F[k - 1] ELSE F[k - 1]
  IN  F[Len(seq)]

\* the elements of seq at the positions in keep, in order
Pick(seq, keep) ==
  LET F[k \in 0..Len(seq)] ==
        IF k = 0 THEN << >>
        ELSE IF k \in keep THEN Append(F[k - 1], seq[k]) ELSE F[k - 1]
  IN  F[Len(seq)]

\* the except clause of lines 194-195: the value itself is the text
CheckedFallback(val, r) ==
  IF r.exc \in { "JSONDecodeError", "KeyError" } THEN [exc |-> "none", v |-> PyStr(val)]
  ELSE IF r.exc = "none" /\ ~Hashable(r.v) THEN [exc |-> "TypeError", v |-> PyNone]
  ELSE r

\* lines 191-195 for one checked value: the text added to checked_texts,
\* or the exception that the except clause does not catch
CheckedText(val) == CheckedFallback(val, LoadsText(val))

CollectChecked(t) ==
  IF \E val \in DOMAIN t : t[val].exc # "none"
  THEN [exc |-> "TypeError", texts |-> { }]
  ELSE [exc |-> "none", texts |-> { t[val].v : val \in DOMAIN t }]

\* lines 189-195: the set checked_texts, or the exception
CheckedTexts(checked_values) ==
  CollectChecked([val \in checked_values |-> CheckedText(val)])

UncheckedFallback(opt, checked_texts, r) ==
  IF r.exc \in { "JSONDecodeError", "KeyError" }
  THEN [exc |-> "none", keep |-> PyStr(opt.value) \notin checked_texts]
  ELSE IF r.exc = "TypeError" \/ ~Hashable(r.v) THEN [exc |-> "TypeError", keep |-> FALSE]
  ELSE [exc |-> "none", keep |-> r.v \notin checked_texts]

\* lines 225-231 for one option: whether it is appended to remaining_options
OptionUnchecked(opt, checked_texts) ==
  UncheckedFallback(opt, checked_texts, LoadsText(opt.value))

InitialFallback(r) ==
  IF r.exc \in { "JSONDecodeError", "KeyError" } THEN [exc |-> "none", texts |-> { }]
  ELSE IF r.exc = "TypeError" \/ ~Hashable(r.v) THEN [exc |-> "TypeError", texts |-> { }]
  ELSE [exc |-> "none", texts |-> { r.v }]

\* lines 235-239 for one initial option: the texts it adds to checked_texts
InitialText(opt) == InitialFallback(LoadsText(opt.value))

StillTest(checked_texts, r) ==
  IF r.exc # "none" THEN [exc |-> r.exc, keep |-> FALSE]
  ELSE IF ~Hashable(r.v) THEN [exc |-> "TypeError", keep |-> FALSE]
  ELSE [exc |-> "none", keep |-> r.v \notin checked_texts]

\* line 242 for one option: json.loads(o["value"])["text"] not in checked_texts
StillUnchecked(opt, checked_texts) == StillTest(checked_texts, LoadsText(opt.value))

FilterRaise(exc, texts) ==
  [exc |-> exc, remaining_options |-> << >>, checked_texts |-> texts]

\* lines 240-243: the comprehension over remaining_options; the first
\* option whose value does not decode raises
SecondPass(options, kept, texts, second) ==
  IF \E k \in kept : second[k].exc # "none"
  THEN FilterRaise(second[CHOOSE k \in kept :
                            /\ second[k].exc # "none"
                            /\ \A l \in kept : second[l].exc # "none" => k <= l].exc,
                   texts)
  ELSE [exc |-> "none",
        remaining_options |-> Pick(options, { k \in kept : second[k].keep }),
        checked_texts |-> texts]

\* lines 233-239: the texts of initial_options join checked_texts
InitialPass(options, kept, checked_texts, added) ==
  IF \E k \in DOMAIN added : added[k].exc # "none"
  THEN FilterRaise("TypeError", checked_texts)
  ELSE SecondPass(options, kept,
                  checked_texts \cup UNION { added[k].texts : k \in DOMAIN added },
                  [k \in kept |->
                     StillUnchecked(options[k],
                       checked_texts \cup UNION { added[l].texts : l \in DOMAIN added })])

\* lines 223-231: the options whose text is not checked
FirstPass(options, initial, checked_texts, first) ==
  IF \E k \in DOMAIN first : first[k].exc # "none"
  THEN FilterRaise("TypeError", checked_texts)
  ELSE InitialPass(options, { k \in DOMAIN first : first[k].keep }, checked_texts,
                   [k \in DOMAIN initial |-> InitialText(initial[k])])

\* lines 222-243: [exc, remaining_options, checked_texts] for one element
FilterOptions(element, checked_texts) ==
  FirstPass(Get(element, "options", << >>), Get(element, "initial_options", << >>),
            checked_texts,
            [k \in DOMAIN Get(element, "options", << >>) |->
               OptionUnchecked(Get(element, "options", << >>)[k], checked_texts)])

IsTitleBlock(block) ==
  /\ Get(block, "type", "") = "section"
  /\ StartsWith(Get(block, "block_id", << >>), << "meeting_title_" >>)

\* lines 256-263: the marker of a meeting whose items are all done
GroupDoneBlock(title_text) ==
  [type |-> "section",
   text |-> [type |-> "mrkdwn",
             text |-> << "~" >> \o Strip(title_text, "*")
                        \o << "~ - all done :white_check_mark:" >>]]
\* a rebuilt actions block that loses the keys of the original block
NewActionsBare(actions_block, remaining_options) ==
  [type |-> "actions",
   elements |-> << [type |-> "checkboxes",
                    action_id |-> actions_block.elements[1].action_id,
                    options |-> remaining_options] >>]

\* lines 249-255: the actions block rebuilt around the remaining options
NewActions(actions_block, remaining_options) ==
  [actions_block EXCEPT !.elements =
     << [type |-> "checkboxes",
         action_id |-> actions_block.elements[1].action_id,
         options |-> remaining_options] >>]

\* a reducer that re-emits the options of a meeting without its title
GroupBlocksNoTitle(st, title_block, actions_block, f) ==
  IF f.exc # "none" THEN [st EXCEPT !.exc = f.exc]
  ELSE IF f.remaining_options # << >>
    THEN [st EXCEPT
            !.any_items_remaining = TRUE,
            !.checked_texts = f.checked_texts,
            !.new_blocks = @ \o << Divider,
                                   NewActions(actions_block, f.remaining_options) >>]
  ELSE [st EXCEPT
          !.checked_texts = f.checked_texts,
          !.new_blocks = @ \o << Divider, GroupDoneBlock(title_block.text.text) >>]

\* a reducer that emits nothing for a meeting whose items are all done
GroupBlocksNoMarker(st, title_block, actions_block, f) ==
  IF f.exc # "none" THEN [st EXCEPT !.exc = f.exc]
  ELSE IF f.remaining_options # << >>
    THEN [st EXCEPT
            !.any_items_remaining = TRUE,
            !.checked_texts = f.checked_texts,
            !.new_blocks = @ \o << Divider, title_block,
                                   NewActions(actions_block, f.remaining_options) >>]
  ELSE [st EXCEPT !.checked_texts = f.checked_texts]

\* lines 245-263: the blocks that replace one meeting, and the loop state
GroupBlocks(st, title_block, actions_block, f) ==
  IF f.exc # "none" THEN [st EXCEPT !.exc = f.exc]
  ELSE IF f.remaining_options # << >>
    THEN [st EXCEPT
            !.any_items_remaining = TRUE,
            !.checked_texts = f.checked_texts,
            !.new_blocks = @ \o << Divider, title_block,
                                   NewActions(actions_block, f.remaining_options) >>]
  ELSE [st EXCEPT
          !.checked_texts = f.checked_texts,
          !.new_blocks = @ \o << Divider, GroupDoneBlock(title_block.text.text) >>]

\* line 266: skip past title + actions + divider
SkipGroup(existing_blocks, i) ==
  IF i + 2 <= Len(existing_blocks) /\ Get(existing_blocks[i + 2], "type", "") = "divider"
  THEN i + 3 ELSE i + 2

\* one iteration of the while loop of lines 201-282 at 1-based position i:
\* [i, st], the next position and the loop state
WalkStep(existing_blocks, i, st, block) ==
  IF Get(block, "type", "") = "header"
    THEN [i |-> i + 1, st |-> [st EXCEPT !.new_blocks = Append(@, block)]]
  ELSE IF IsTitleBlock(block) THEN
    IF i + 1 <= Len(existing_blocks) /\ Get(existing_blocks[i + 1], "type", "") = "actions"
    THEN [i |-> SkipGroup(existing_blocks, i),
          st |-> GroupBlocks(st, block, existing_blocks[i + 1],
                             FilterOptions(existing_blocks[i + 1].elements[1],
                                           st.checked_texts))]
    ELSE [i |-> i + 1, st |-> [st EXCEPT !.new_blocks = @ \o << Divider, block >>]]
  ELSE IF Get(block, "type", "") = "divider" THEN [i |-> i + 1, st |-> st]
  ELSE [i |-> i + 1, st |-> [st EXCEPT !.new_blocks = Append(@, block)]]

RECURSIVE RebuildWalk(_, _)

WalkOn(existing_blocks, n) ==
  IF n.st.exc # "none" THEN n.st ELSE RebuildWalk(existing_blocks, n)

\* the while loop of lines 200-282; n.st carries new_blocks,
\* any_items_remaining and checked_texts
RebuildWalk(existing_blocks, n) ==
  IF n.i > Len(existing_blocks) THEN n.st
  ELSE WalkOn(existing_blocks, WalkStep(existing_blocks, n.i, n.st, existing_blocks[n.i]))
\* a reducer that answers a message without header as one without items
RebuildResultNoItems(st, d) ==
  IF st.exc # "none" THEN Raise(st.exc)
  ELSE IF st.any_items_remaining THEN Return(st.new_blocks)
  ELSE IF \E k \in DOMAIN st.new_blocks : Get(st.new_blocks[k], "type", "") = "header"
    THEN Return(build_all_done_blocks(d))
  ELSE Return(build_no_items_blocks(d))

\* a reducer without the terminal state
RebuildResultNoTerminal(st, d) ==
  IF st.exc # "none" THEN Raise(st.exc) ELSE Return(st.new_blocks)

\* lines 284-287
RebuildResult(st, d) ==
  IF st.exc # "none" THEN Raise(st.exc)
  ELSE IF ~st.any_items_remaining THEN Return(build_all_done_blocks(d))
  ELSE Return(st.new_blocks)

RebuildFrom(existing_blocks, checked, d) ==
  IF checked.exc # "none" THEN Raise(checked.exc)
  ELSE RebuildResult(RebuildWalk(existing_blocks,
                       [i |-> 1,
                        st |-> [new_blocks |-> << >>,
                                any_items_remaining |-> FALSE,
                                checked_texts |-> checked.texts,
                                exc |-> "none"]]), d)

rebuild_blocks_after_check(existing_blocks, checked_values, d) ==
  RebuildFrom(existing_blocks, CheckedTexts(checked_values), d)

(***************************************************************************)
(* Action-item extraction, extract_action_items_from_file                  *)
(* (src/meeting_sync.py).  lines is the list of transcript lines of one    *)
(* meeting file, each [speaker, text].                                     *)
(***************************************************************************)
\* characters that \s matches and str.strip() strips
Whitespace == { " ", "\t", "\n", "\r", "\f" }

\* if len(combined) > 200: combined = combined[:200] + "..."
ContextLimit == 200

\* dedup_key = combined[:60].lower()
DedupKeyLength == 60

\* len(combined) > 10
ShortestContext == 10

\* TRANSCRIPT_ACTION_PATTERNS: each alternative is \b, one of heads, \s+ when gap,
\* one of tails, and \b when endb
TRANSCRIPT_ACTION_PATTERNS ==
  {
    \* line 39
    [heads |-> { << "i", "'", "l", "l" >>,
                 << "i", "'", "m", " ", "g", "o", "i", "n", "g", " ", "t", "o" >>,
                 << "i", "'", "m", " ", "g", "o", "n", "n", "a" >> },
     gap |-> TRUE,
     tails |-> { << "s", "e", "n", "d" >>,
                 << "e", "m", "a", "i", "l" >>,
                 << "s", "h", "a", "r", "e" >>,
                 << "f", "o", "l", "l", "o", "w", " ", "u", "p" >>,
                 << "r", "e", "a", "c", "h", " ", "o", "u", "t" >>,
                 << "s", "c", "h", "e", "d", "u", "l", "e" >>,
                 << "s", "e", "t", " ", "u", "p" >>,
                 << "f", "i", "n", "a", "l", "i", "z", "e" >>,
                 << "w", "o", "r", "k", " ", "o", "n" >>,
                 << "h", "a", "n", "d", "l", "e" >>,
                 << "t", "a", "l", "k", " ", "t", "o" >>,
                 << "p", "i", "n", "g" >>,
                 << "c", "r", "e", "a", "t", "e" >>,
                 << "d", "r", "a", "f", "t" >>,
                 << "w", "r", "i", "t", "e" >>,
                 << "b", "u", "i", "l", "d" >>,
                 << "u", "p", "d", "a", "t", "e" >>,
                 << "p", "u", "t", " ", "t", "o", "g", "e", "t", "h", "e", "r" >>,
                 << "c", "o", "o", "r", "d", "i", "n", "a", "t", "e" >>,
                 << "o", "w", "n", " ", "t", "h", "a", "t" >> },
     endb |-> FALSE],
    \* line 41
    [heads |-> { << "i", " ", "n", "e", "e", "d", " ", "t", "o" >> },
     gap |-> TRUE,
     tails |-> { << "s", "e", "n", "d" >>,
                 << "e", "m", "a", "i", "l" >>,
                 << "s", "h", "a", "r", "e" >>,
                 << "f", "o", "l", "l", "o", "w", " ", "u", "p" >>,
                 << "r", "e", "a", "c", "h", " ", "o", "u", "t" >>,
                 << "s", "c", "h", "e", "d", "u", "l", "e" >>,
                 << "s", "e", "t", " ", "u", "p" >>,
                 << "f", "i", "n", "a", "l", "i", "z", "e" >>,
                 << "w", "o", "r", "k", " ", "o", "n" >>,
                 << "h", "a", "n", "d", "l", "e" >>,
                 << "t", "a", "l", "k", " ", "t", "o" >>,
                 << "f", "i", "g", "u", "r", "e", " ", "o", "u", "t" >>,
                 << "c", "h", "e", "c", "k" >>,
                 << "g", "e", "t" >>,
                 << "d", "o" >>,
                 << "r", "u", "n" >>,
                 << "u", "p", "d", "a", "t", "e" >> },
     endb |-> FALSE],
    \* line 42
    [heads |-> { << "w", "e", " ", "n", "e", "e", "d", " ", "t", "o" >> },
     gap |-> TRUE,
     tails |-> { << "s", "e", "n", "d" >>,
                 << "e", "m", "a", "i", "l" >>,
                 << "s", "h", "a", "r", "e" >>,
                 << "f", "o", "l", "l", "o", "w", " ", "u", "p" >>,
                 << "r", "e", "a", "c", "h", " ", "o", "u", "t" >>,
                 << "s", "c", "h", "e", "d", "u", "l", "e" >>,
                 << "s", "e", "t", " ", "u", "p" >>,
                 << "f", "i", "n", "a", "l", "i", "z", "e" >>,
                 << "w", "o", "r", "k", " ", "o", "n" >>,
                 << "h", "a", "n", "d", "l", "e" >>,
                 << "f", "i", "g", "u", "r", "e", " ", "o", "u", "t" >>,
                 << "c", "h", "e", "c", "k" >>,
                 << "g", "e", "t" >>,
                 << "d", "o" >>,
                 << "r", "e", "b", "a", "l", "a", "n", "c", "e" >>,
                 << "r", "e", "d", "u", "c", "e" >>,
                 << "p", "i", "c", "k" >>,
                 << "r", "e", "d", "e", "s", "i", "g", "n" >>,
                 << "n", "e", "g", "o", "t", "i", "a", "t", "e" >> },
     endb |-> FALSE],
    \* line 44
    [heads |-> { << "c", "a", "n", " ", "y", "o", "u" >> },
     gap |-> TRUE,
     tails |-> { << "s", "e", "n", "d" >>,
                 << "e", "m", "a", "i", "l" >>,
                 << "s", "h", "a", "r", "e" >>,
                 << "f", "o", "l", "l", "o", "w", " ", "u", "p" >>,
                 << "r", "e", "a", "c", "h", " ", "o", "u", "t" >>,
                 << "s", "c", "h", "e", "d", "u", "l", "e" >>,
                 << "s", "e", "t", " ", "u", "p" >>,
                 << "g", "e", "t", " ", "u", "s" >>,
                 << "c", "h", "e", "c", "k" >>,
                 << "d", "o" >>,
                 << "c", "r", "e", "a", "t", "e" >>,
                 << "d", "r", "a", "f", "t" >>,
                 << "h", "a", "n", "d", "l", "e" >>,
                 << "r", "e", "s", "e", "a", "r", "c", "h" >>,
                 << "p", "u", "t" >> },
     endb |-> FALSE],
    \* line 46
    [heads |-> { << "b", "y", " " >> },
     gap |-> FALSE,
     tails |-> { << "e", "n", "d", " ", "o", "f", " ", "d", "a", "y" >>,
                 << "e", "n", "d", " ", "o", "f", " ", "w", "e", "e", "k" >>,
                 << "m", "o", "n", "d", "a", "y" >>,
                 << "t", "u", "e", "s", "d", "a", "y" >>,
                 << "w", "e", "d", "n", "e", "s", "d", "a", "y" >>,
                 << "t", "h", "u", "r", "s", "d", "a", "y" >>,
                 << "f", "r", "i", "d", "a", "y" >>,
                 << "n", "e", "x", "t", " ", "w", "e", "e", "k" >>,
                 << "t", "o", "m", "o", "r", "r", "o", "w" >>,
                 << "t", "o", "n", "i", "g", "h", "t" >>,
                 << "e", "o", "d" >>,
                 << "e", "o", "w" >> },
     endb |-> TRUE],
    \* line 48
    [heads |-> { << "a", "c", "t", "i", "o", "n", " ", "i", "t", "e", "m" >> },
     gap |-> FALSE,
     tails |-> { << >> },
     endb |-> TRUE],
    \* line 49
    [heads |-> { << "n", "e", "x", "t", " ", "s", "t", "e", "p" >>,
                 << "n", "e", "x", "t", " ", "s", "t", "e", "p", "s" >> },
     gap |-> TRUE,
     tails |-> { << "i", "s" >>,
                 << "a", "r", "e" >>,
                 << "o", "n" >>,
                 << "h", "e", "r", "e" >>,
                 << "f", "o", "r" >> },
     endb |-> TRUE],
    \* line 50
    [heads |-> { << "f", "o", "l", "l", "o", "w", "u", "p", " " >>,
                 << "f", "o", "l", "l", "o", "w", "-", "u", "p", " " >>,
                 << "f", "o", "l", "l", "o", "w", " ", "u", "p", " " >> },
     gap |-> FALSE,
     tails |-> { << "w", "i", "t", "h" >>,
                 << "o", "n" >> },
     endb |-> TRUE] }

\* NOISE_PATTERNS, in the same form
NOISE_PATTERNS ==
  {
    \* line 61
    [heads |-> { << "i", " ", "n", "e", "e", "d", " ", "t", "o", " " >> },
     gap |-> FALSE,
     tails |-> { << "r", "u", "n" >>,
                 << "g", "o" >>,
                 << "h", "o", "p" >>,
                 << "j", "u", "m", "p" >>,
                 << "l", "e", "a", "v", "e" >>,
                 << "m", "u", "t", "e" >>,
                 << "d", "r", "o", "p" >> },
     endb |-> TRUE],
    \* line 62
    [heads |-> { << "l", "e", "t", " ", "m", "e", " " >> },
     gap |-> FALSE,
     tails |-> { << "s", "e", "e" >>,
                 << "s", "h", "o", "w" >>,
                 << "t", "h", "i", "n", "k" >>,
                 << "c", "h", "e", "c", "k" >>,
                 << "l", "o", "o", "k" >>,
                 << "p", "u", "l", "l", " ", "u", "p" >>,
                 << "s", "h", "a", "r", "e", " ", "m", "y", " ", "s", "c", "r", "e", "e",
                    "n" >> },
     endb |-> TRUE],
    \* line 63
    [heads |-> { << "i", "'", "l", "l", " " >>,
                 << "i", "'", "m", " ", "g", "o", "i", "n", "g", " ", "t", "o", " " >>,
                 << "i", "'", "m", " ", "g", "o", "n", "n", "a", " " >> },
     gap |-> FALSE,
     tails |-> { << "b", "e", " " >>,
                 << "t", "r", "y", " " >>,
                 << "j", "u", "s", "t", " " >> },
     endb |-> FALSE] }

\* the words of FILLER_PATTERNS
FillerWords ==
  { << "y", "e", "a", "h" >>,
    << "y", "e", "p" >>,
    << "o", "k", "a", "y" >>,
    << "o", "k" >>,
    << "c", "o", "o", "l" >>,
    << "r", "i", "g", "h", "t" >>,
    << "s", "u", "r", "e" >>,
    << "m", "h", "m" >>,
    << "u", "h", " ", "h", "u", "h" >>,
    << "g", "r", "e", "a", "t" >>,
    << "a", "l", "r", "i", "g", "h", "t" >>,
    << "t", "h", "a", "n", "k", "s" >>,
    << "b", "y", "e" >>,
    << "h", "e", "l", "l", "o" >>,
    << "h", "i" >>,
    << "h", "e", "y" >>,
    << "h", "m", "m" >>,
    << "h", "u", "h" >>,
    << "w", "o", "w" >>,
    << "o", "h" >> }


NotWhitespace(c) == c \notin Whitespace

\* where the tail of a pattern starts: after the head, and after the whole
\* run of \s+ when the pattern has one (beyond the text when \s+ fails)
AfterGap(t, i, gap) ==
  IF ~gap THEN i
  ELSE IF i <= Len(t) /\ t[i] \in Whitespace THEN FirstAt(t, i, NotWhitespace)
  ELSE Len(t) + 2

\* one of the tails of p, and its \b, at position i
TailAt(t, i, p) ==
  \E tail \in p.tails :
    /\ MatchAt(t, i, tail)
    /\ p.endb => i + Len(tail) > Len(t) \/ ~IsWordChar(t[i + Len(tail)])

\* pattern p matches the lower-cased text t at the start of a word at k
MatchesAt(t, k, p) ==
  \E head \in p.heads :
    MatchAt(t, k, head) /\ TailAt(t, AfterGap(t, k + Len(head), p.gap), p)

\* the positions of \b before a word
WordStarts(t) ==
  { k \in 1..Len(t) : IsWordChar(t[k]) /\ (k = 1 \/ ~IsWordChar(t[k - 1])) }

\* pattern.search(text) with re.IGNORECASE, for a set of alternatives
ReSearch(patterns, t) == \E k \in WordStarts(t), p \in patterns : MatchesAt(t, k, p)

\* FILLER_PATTERNS.match(text)
FillerMatch(text) ==
  \E word \in FillerWords :
    /\ MatchAt(LowerOf(text), 1, word)
    /\ \A k \in (Len(word) + 1)..Len(text) : text[k] \in { ".", "!", "?", "," } \cup Whitespace

\* lines 520-523: the text is not filler, matches an action pattern and
\* matches no noise pattern
IsActionText(text) ==
  /\ ~FillerMatch(text)
  /\ ReSearch(TRANSCRIPT_ACTION_PATTERNS, LowerOf(text))
  /\ ~ReSearch(NOISE_PATTERNS, LowerOf(text))

\* the transcript lines of the model
LineOkay ==
  [speaker |-> << "a", "l" >>,
   text |-> << "O", "k", "a", "y", "." >>]

LineSend ==
  [speaker |-> << "m", "e" >>,
   text |-> << "I", "'", "l", "l", " ", "s", "e", "n", "d", " ", " ", "t", "h", "e", " ",
              "d", "e", "c", "k", "\t", "b", "y", " ", "F", "r", "i", "d", "a", "y" >>]

LineSendAgain ==
  [speaker |-> << "a", "l" >>,
   text |-> << "i", "'", "l", "l", " ", "S", "E", "N", "D", " ", "t", "h", "e", " ", "d",
              "e", "c", "k", " ", "b", "y", " ", "f", "r", "i", "d", "a", "y" >>]

LineRemark ==
  [speaker |-> << "a", "l" >>,
   text |-> << "a", "n", "d", " ", "t", "h", "e", "n", " ", "t", "h", "e", " ", "v", "e",
              "n", "d", "o", "r", " ", "s", "a", "i", "d", " ", "t", "h", "a", "t", " ",
              "t", "h", "e", " ", "w", "h", "o", "l", "e", " ", "q", "u", "a", "r", "t",
              "e", "r", "l", "y", " ", "p", "i", "p", "e", "l", "i", "n", "e", " ", "r",
              "e", "v", "i", "e", "w", " ", "n", "e", "e", "d", "s", " ", "a", "n", "o",
              "t", "h", "e", "r", " ", "p", "a", "s", "s", " ", "b", "e", "f", "o", "r",
              "e", " ", "a", "n", "y", "o", "n", "e", " ", "s", "i", "g", "n", "s", " ",
              "a", "n", "y", "t", "h", "i", "n", "g", " ", "a", "t", " ", "a", "l", "l" >>]

LineEod ==
  [speaker |-> << "m", "e" >>,
   text |-> << "b", "y", " ", "e", "o", "d" >>]

LineRun ==
  [speaker |-> << "m", "e" >>,
   text |-> << "I", " ", "n", "e", "e", "d", " ", "t", "o", " ", "r", "u", "n", " ", "b",
              "y", " ", "e", "o", "d" >>]

LineSow ==
  [speaker |-> << "a", "l" >>,
   text |-> << "W", "e", " ", "n", "e", "e", "d", " ", "t", "o", " ", "s", "e", "n", "d",
              " ", "t", "h", "e", " ", "r", "e", "v", "i", "s", "e", "d", " ", "s", "t",
              "a", "t", "e", "m", "e", "n", "t", " ", "o", "f", " ", "w", "o", "r", "k",
              " ", "t", "o", " ", "t", "h", "e", " ", "v", "e", "n", "d", "o", "r", " ",
              "l", "e", "g", "a", "l", " ", "t", "e", "a", "m", " ", "b", "y", " ", "F",
              "r", "i", "d", "a", "y" >>]

LinePool == { LineOkay, LineSend, LineSendAgain, LineRemark, LineEod, LineRun, LineSow }

\* the patterns applied to each line of the pool, once
FillerLines == { line \in LinePool : FillerMatch(line.text) }

ActionLines == { line \in LinePool : IsActionText(line.text) }

\* a lookahead that skips a filler line and continues
LookaheadSkipping(lines, idx) ==
  LET NotFiller(k) == k <= Len(lines) /\ lines[k] \notin FillerLines
  IN  (IF NotFiller(idx + 1) THEN << lines[idx + 1].text >> ELSE << >>)
        \o (IF NotFiller(idx + 2) THEN << lines[idx + 2].text >> ELSE << >>)

\* lines 525-532: the texts of the next two lines, up to the first filler
Lookahead(lines, idx) ==
  IF idx + 1 > Len(lines) \/ lines[idx + 1] \in FillerLines THEN << >>
  ELSE IF idx + 2 > Len(lines) \/ lines[idx + 2] \in FillerLines
    THEN << lines[idx + 1].text >>
  ELSE << lines[idx + 1].text, lines[idx + 2].text >>

\* " ".join(parts)
RECURSIVE Join(_)
Join(parts) ==
  IF Len(parts) = 1 THEN parts[1] ELSE parts[1] \o << " " >> \o Join(Tail(parts))

\* re.sub(r'\s+', ' ', s).strip()
CollapseWhitespace(s) ==
  LET Kept(c) == c # ""
      runs == SelectSeq([k \in DOMAIN s |->
                           IF s[k] \notin Whitespace THEN s[k]
                           ELSE IF k > 1 /\ s[k - 1] \in Whitespace THEN "" ELSE " "],
                        Kept)
      first == IF runs # << >> /\ runs[1] = " " THEN 2 ELSE 1
      last == IF runs # << >> /\ runs[Len(runs)] = " " THEN Len(runs) - 1 ELSE Len(runs)
  IN  SubSeq(runs, first, last)

\* a context that is never cut
TruncateNever(combined) == combined

\* lines 536-537
Truncate(combined) ==
  IF Len(combined) > ContextLimit
  THEN SubSeq(combined, 1, ContextLimit) \o << ".", ".", "." >>
  ELSE combined

\* lines 524-537: the context of the actionable line at idx
Combined(lines, idx) ==
  Truncate(CollapseWhitespace(Join(<< lines[idx].text >> \o Lookahead(lines, idx))))

\* a key that keeps the case of the context
DedupKeyExact(combined) ==
  SubSeq(combined, 1,
         IF Len(combined) < DedupKeyLength THEN Len(combined) ELSE DedupKeyLength)

\* line 540
DedupKey(combined) ==
  LowerOf(SubSeq(combined, 1,
                 IF Len(combined) < DedupKeyLength THEN Len(combined) ELSE DedupKeyLength))

\* line 546: f"({speaker}) {combined}"
TaggedItem(speaker, combined) == << "(" >> \o speaker \o << ")", " " >> \o combined

RECURSIVE ScanLines(_, _, _, _)

\* lines 541-546 for the context of an actionable line
ScanContext(lines, idx, seen, action_items, combined, dedup_key) ==
  IF dedup_key \notin seen /\ Len(combined) > ShortestContext
  THEN ScanLines(lines, idx + 1, seen \cup { dedup_key },
                 Append(action_items, TaggedItem(lines[idx].speaker, combined)))
  ELSE ScanLines(lines, idx + 1, seen, action_items)

\* lines 524-540 for an actionable line
ScanAction(lines, idx, seen, action_items, combined) ==
  ScanContext(lines, idx, seen, action_items, combined, DedupKey(combined))

\* the loop of lines 516-546
ScanLines(lines, idx, seen, action_items) ==
  IF idx > Len(lines) THEN action_items
  ELSE IF lines[idx] \in ActionLines
    THEN ScanAction(lines, idx, seen, action_items, Combined(lines, idx))
  ELSE ScanLines(lines, idx + 1, seen, action_items)

\* lines 513-548: seen and action_items start empty for every file
extract_action_items_from_file(lines) == ScanLines(lines, 1, { }, << >>)

(***************************************************************************)
(* Inputs: what get_todays_items can return.  An item is "(speaker) text"  *)
(* as extract_action_items_from_file formats it (src/meeting_sync.py line  *)
(* 546); the items of one meeting are pairwise distinct (its dedup), and   *)
(* only meetings with at least one item are listed (src/bot.py line 170).  *)
(***************************************************************************)
ItemMe ==
  << "(", "m", "e", ")", " ", "\"", "a", "\\", "b", "\"", " ", "b", "y", " ", "e", "o", "d" >>

ItemKatie ==
  << "(", "a", "l", ")", " ", "K", "a", "t", "i", "e", "'", "s", " ", "b", "y", " ",
     "e", "o", "d" >>

ItemMeg ==
  << "(", "m", "e", "g", ")", " ", "k", "a", "t", "i", "e", EAcute, " ", "b", "y", " ",
     "e", "o", "d" >>

\* the action items a transcript can yield, in the order it yields them
ItemPool == << ItemMe, ItemMeg, ItemKatie >>

\* the title of the k-th meeting file of today
Titles ==
  << << "Q", "3" >>, << "1", ":", "1" >>, << "O", "p", "s" >>, << "A", "l", "l" >> >>

ItemsAmong(chosen) ==
  LET Chosen(item) == item \in chosen IN SelectSeq(ItemPool, Chosen)

ItemLists == { ItemsAmong(chosen) : chosen \in SUBSET Range(ItemPool) } \ { << >> }

RECURSIVE SumLen(_)
SumLen(ms) == IF ms = << >> THEN 0 ELSE Len(Head(ms).items) + SumLen(Tail(ms))

TodaysItems ==
  UNION { { ms \in [1..g -> [title : Range(Titles), items : ItemLists]] :
              /\ \A k \in 1..g : ms[k].title = Titles[k]
              /\ SumLen(ms) <= MaxItems } : g \in 0..MaxGroups }

(***************************************************************************)
(* Transcripts: the lines that the pattern of line 504 reads from the      *)
(* Transcript section of a meeting file.                                   *)
(***************************************************************************)
Transcripts == UNION { [1..n -> LinePool] : n \in 0..MaxLines }

\* today's meeting files: two meetings in which the same lines were said
TodaysFiles == { << lines, lines >> : lines \in Transcripts }

(***************************************************************************)
(* State of the bot and of the Slack message it maintains.                 *)
(***************************************************************************)
VARIABLES
  today,            \* the day datetime.now() reports
  meetings,         \* the result of get_todays_items when the message was sent
  katie_items,      \* the owner list that split_katie_items returned for it
  other_meetings,   \* the other list that split_katie_items returned for it
  posted,           \* the blocks that say() posted; << >> before any message
  message,          \* the message Slack displays now: [blocks, text]
  events,           \* checkbox interactions delivered but not handled yet
  nclicks,          \* the number of checkbox interactions so far
  checked_so_far,   \* every checked value of the interactions handled so far
  raised,           \* the exception that escaped the last handle_checkbox
  files,            \* the transcript lines of today's meeting files
  extracted,        \* the action items extracted so far, file by file
  now,              \* the clock, in half days
  documents,        \* the documents of the Granola cache
  sync_state,       \* the sync state file
  written           \* the ids that the last sync_meetings run wrote files for

bot_vars ==
  << today, meetings, katie_items, other_meetings, posted, message, events,
     nclicks, checked_so_far, raised >>

extract_vars == << files, extracted >>

sync_vars == << now, documents, sync_state, written >>

vars == << bot_vars, extract_vars, sync_vars >>

NoMessage == [blocks |-> << >>, text |-> << >>]

\* no message has been sent
BotInit ==
  /\ today = "posting day"
  /\ meetings = << >>
  /\ katie_items = << >>
  /\ other_meetings = << >>
  /\ posted = << >>
  /\ message = NoMessage
  /\ events = { }
  /\ nclicks = 0
  /\ checked_so_far = { }
  /\ raised = "none"

\* no meeting file is being read
ExtractIdle == files = << >> /\ extracted = << >>

\* no sync state file, an empty cache
SyncIdle ==
  /\ now = 0
  /\ documents = { }
  /\ sync_state = [exists |-> FALSE]
  /\ written = { }

Init == BotInit /\ ExtractIdle /\ SyncIdle

\* the options of a block sequence, in display order
RECURSIVE OptionsOf(_)
OptionsOf(blocks) ==
  IF blocks = << >> THEN << >>
  ELSE (IF Get(Head(blocks), "type", "") = "actions"
        THEN Get(Head(blocks).elements[1], "options", << >>) ELSE << >>)
         \o OptionsOf(Tail(blocks))

\* lines 329-333: total_remaining
RECURSIVE TotalRemaining(_)
TotalRemaining(blocks) ==
  IF blocks = << >> THEN 0
  ELSE (IF Get(Head(blocks), "type", "") = "actions"
        THEN Len(Get(Head(blocks).elements[1], "options", << >>)) ELSE 0)
         + TotalRemaining(Tail(blocks))

\* say(blocks=..., text=...): the message appears in the channel
Say(blocks, text) ==
  /\ posted' = blocks
  /\ message' = [blocks |-> blocks, text |-> text]

SendSplit(items, parts) ==
  /\ meetings' = items
  /\ katie_items' = parts.katie_items
  /\ other_meetings' = parts.other_meetings

\* send_action_items: the message posted for the items of today
SendActionItems(items) ==
  /\ posted = << >>
  /\ SendSplit(items, split_katie_items(items))
  /\ IF items = << >>
     THEN Say(build_no_items_blocks(today), << "No action items today." >>)
     ELSE Say(build_interactive_blocks(items, today),
              IntToChars(SumLen(items)) \o << " action item(s) from " >>
                \o IntToChars(Len(items)) \o << " meeting(s)" >>)
  /\ UNCHANGED << today, events, nclicks, checked_so_far, raised, extract_vars, sync_vars >>

\* handle_mention: an @mention is answered with today's action items
HandleMention == \E items \in TodaysItems : SendActionItems(items)

\* handle_dm: only a direct message that no bot sent is answered
HandleDm ==
  \E items \in TodaysItems, channel_type \in { "im", "channel" }, bot_id \in { "", "B0" } :
    IF channel_type = "im" /\ bot_id = ""
    THEN SendActionItems(items)
    ELSE posted = << >> /\ UNCHANGED vars

\* midnight passes while the message is displayed
Tick ==
  /\ posted # << >>
  /\ today = "posting day"
  /\ today' = "a later day"
  /\ UNCHANGED << meetings, katie_items, other_meetings, posted, message, events,
                  nclicks, checked_so_far, raised, extract_vars, sync_vars >>

ValuesOf(blocks) == { OptionsOf(blocks)[k].value : k \in DOMAIN OptionsOf(blocks) }

\* the block_actions payload Slack sends for a checkbox interaction: the
\* message as it is now, and the values selected in the view the user acted on
Payload(checked_values) == [blocks |-> message.blocks, checked |-> checked_values]

\* lines 329-340: client.chat_update with the rebuilt blocks
ChatUpdate(new_blocks, total_remaining) ==
  message' =
    [blocks |-> new_blocks,
     text |-> IF total_remaining # 0
              THEN IntToChars(total_remaining) \o << " action item(s) remaining" >>
              ELSE << "All done!" >>]

\* an exception of rebuild_blocks_after_check escapes the handler before
\* chat_update: the message stays as it is
Rebuilt(r) ==
  IF r.exc # "none"
  THEN raised' = r.exc /\ UNCHANGED message
  ELSE raised' = "none" /\ ChatUpdate(r.blocks, TotalRemaining(r.blocks))

\* handle_checkbox (lines 312-340) for one payload
handle_checkbox(body) ==
  /\ checked_so_far' = checked_so_far \cup body.checked
  /\ Rebuilt(rebuild_blocks_after_check(body.blocks, body.checked, today))
  /\ UNCHANGED << today, meetings, katie_items, other_meetings, posted, extract_vars, sync_vars >>

\* A user ticks checkboxes and the interaction is handled before the next
\* one is delivered.  The user may act on any view the message has had, so
\* the selected values are option values of the posted checklist.
Checkbox ==
  /\ ValuesOf(posted) # { }
  /\ nclicks < MaxEvents
  /\ nclicks' = nclicks + 1
  /\ UNCHANGED events
  /\ \E checked_values \in SUBSET ValuesOf(posted) : handle_checkbox(Payload(checked_values))

Next == HandleMention \/ HandleDm \/ Tick \/ Checkbox

Spec == Init /\ [][Next]_vars

(***************************************************************************)
(* Concurrent delivery: Slack delivers a second interaction before the     *)
(* handler of the first has updated the message; the handlers run on       *)
(* threads of the Bolt app, in any order.                                  *)
(***************************************************************************)
Deliver ==
  /\ ValuesOf(posted) # { }
  /\ nclicks < MaxEvents
  /\ nclicks' = nclicks + 1
  /\ \E checked_values \in SUBSET ValuesOf(posted) :
       events' = events \cup { Payload(checked_values) }
  /\ UNCHANGED << today, meetings, katie_items, other_meetings, posted, message,
                  checked_so_far, raised, extract_vars, sync_vars >>

HandleDelivered ==
  \E body \in events :
    /\ events' = events \ { body }
    /\ UNCHANGED nclicks
    /\ handle_checkbox(body)

NextConcurrent == HandleMention \/ Deliver \/ HandleDelivered

SpecConcurrent == Init /\ [][NextConcurrent]_vars

(***************************************************************************)
(* Checked values that no option of the bot carries: the reducer is        *)
(* applied to values of every JSON shape.                                  *)
(***************************************************************************)
OddValues ==
  { << "1", "2", "3" >>,
    << "\"", "x", "\"" >>,
    << "[", "]" >>,
    << "n", "u", "l", "l" >>,
    << "{", "\"", "m", "\"", ":", " ", "0", "}" >>,
    ItemMe }

CheckboxOdd ==
  /\ ValuesOf(posted) # { }
  /\ nclicks < MaxEvents
  /\ nclicks' = nclicks + 1
  /\ UNCHANGED events
  /\ \E val \in OddValues, checked_values \in SUBSET ValuesOf(posted) :
       handle_checkbox(Payload(checked_values \cup { val }))

NextOdd == HandleMention \/ CheckboxOdd

SpecOdd == Init /\ [][NextOdd]_vars

(***************************************************************************)
(* Checklists the reducer accepts beside those build_interactive_blocks    *)
(* renders: an option whose value is plain text rather than a JSON object  *)
(* (the except clauses of src/bot.py lines 194-195 and 229-231), and a     *)
(* checkboxes element that lists some of its options as initial_options    *)
(* (lines 233-239).                                                        *)
(***************************************************************************)
\* the options, those at the positions in plain carrying their text as value
LegacyOptions(options, offset, plain) ==
  [k \in DOMAIN options |->
     IF offset + k \in plain THEN [options[k] EXCEPT !.value = options[k].text.text]
     ELSE options[k]]

\* the checkboxes element with the options at the positions in ticked listed
\* as initial_options
LegacyElement(element, options, ticked) ==
  IF ticked = { } THEN [element EXCEPT !.options = options]
  ELSE [type |-> element.type,
        action_id |-> element.action_id,
        options |-> options,
        initial_options |-> Pick(options, ticked)]

LegacyActions(block, offset, plain, initial) ==
  [block EXCEPT !.elements =
     << LegacyElement(block.elements[1],
                      LegacyOptions(block.elements[1].options, offset, plain),
                      { k \in DOMAIN block.elements[1].options : offset + k \in initial }) >>]

\* the blocks, with the options counted through the message
RECURSIVE LegacyBlocks(_, _, _, _)
LegacyBlocks(blocks, offset, plain, initial) ==
  IF blocks = << >> THEN << >>
  ELSE IF Head(blocks).type = "actions"
    THEN << LegacyActions(Head(blocks), offset, plain, initial) >>
           \o LegacyBlocks(Tail(blocks), offset + Len(Head(blocks).elements[1].options),
                           plain, initial)
  ELSE << Head(blocks) >> \o LegacyBlocks(Tail(blocks), offset, plain, initial)

AtMostOne(S) == { { } } \cup { { x } : x \in S }

LegacyChecklists ==
  { LegacyBlocks(build_interactive_blocks(items, "posting day"), 0, plain, initial) :
      items \in TodaysItems \ { << >> },
      plain \in AtMostOne(1..MaxItems),
      initial \in AtMostOne(1..MaxItems) }

\* such a checklist is in the channel
InitLegacy ==
  /\ today = "posting day"
  /\ meetings = << >>
  /\ katie_items = << >>
  /\ other_meetings = << >>
  /\ posted \in LegacyChecklists
  /\ message = [blocks |-> posted, text |-> << "action items" >>]
  /\ events = { }
  /\ nclicks = 0
  /\ checked_so_far = { }
  /\ raised = "none"
  /\ ExtractIdle
  /\ SyncIdle

NextLegacy == Checkbox

SpecLegacy == InitLegacy /\ [][NextLegacy]_vars

(***************************************************************************)
(* Extraction of today's meeting files (get_todays_action_items,           *)
(* src/meeting_sync.py lines 551-560): extract_action_items_from_file is   *)
(* called for one file after the other.                                    *)
(***************************************************************************)
InitExtract ==
  /\ BotInit
  /\ SyncIdle
  /\ files \in TodaysFiles
  /\ extracted = << >>

ExtractFile ==
  /\ Len(extracted) < Len(files)
  /\ extracted' = Append(extracted,
                         extract_action_items_from_file(files[Len(extracted) + 1]))
  /\ UNCHANGED << files, bot_vars, sync_vars >>

NextExtract == ExtractFile

SpecExtract == InitExtract /\ [][NextExtract]_vars

(***************************************************************************)
(* Meeting sync, sync_meetings (src/meeting_sync.py).  Instants are        *)
(* counted in half days; a timestamp is the instant it names, and          *)
(* timestamps compare as their instants do.  documents is the Granola      *)
(* cache, sync_state the sync state file, written the ids of the meetings  *)
(* that the latest run has passed to write_meeting_file.                   *)
(***************************************************************************)
\* timedelta(days=7)
SyncWindowDays == 7

HalfDays(days) == 2 * days

\* strftime("%Y-%m-%d") of an instant
DayOf(t) == t \div 2

\* the first instant of the model: the cache reaches back beyond the window
FirstInstant == HalfDays(SyncWindowDays) + 1

DocIds == { "doc-a", "doc-b" }

\* isoformat() of an instant
Stamp(t) == [kind |-> "str", at |-> t]

\* a document of the cache
Document(id, created_at, deleted_at, valid_meeting) ==
  [id |-> id, created_at |-> created_at, deleted_at |-> deleted_at,
   valid_meeting |-> valid_meeting]

\* lines 269-272: the new dict is bound to state before synced_ids is read
\* from it
Migrate(state) ==
  [state EXCEPT !.meetings =
     { [id |-> sid, skipped |-> TRUE] : sid \in Get(state, "synced_ids", { }) }]

\* load_sync_state (lines 263-274); file is the parsed JSON object
load_sync_state(file) ==
  IF ~file.exists THEN [last_sync |-> PyNone, meetings |-> { }]
  ELSE IF "synced_ids" \in DOMAIN file.json /\ "meetings" \notin DOMAIN file.json
    THEN Migrate([last_sync |-> Get(file.json, "last_sync", PyNone), meetings |-> { }])
  ELSE file.json

KnownIds(state) == { m.id : m \in Get(state, "meetings", { }) }

\* lines 290-293
Cutoff(last_sync, t) ==
  IF last_sync # PyNone THEN last_sync.at ELSE t - HalfDays(SyncWindowDays)

\* lines 307-314: the documents that pass the filters
IsNewMeeting(doc, known_ids, cutoff, t) ==
  /\ ~doc.deleted_at
  /\ doc.valid_meeting
  /\ doc.id \notin known_ids
  /\ DayOf(doc.created_at) = DayOf(t) \/ doc.created_at >= cutoff

\* extract_new_meetings (lines 285-380) at instant t
extract_new_meetings(granola_state, state, t) ==
  { doc \in granola_state :
      IsNewMeeting(doc, KnownIds(state),
                   Cutoff(Get(state, "last_sync", PyNone), t), t) }

\* lines 463-470: meetings_dict[meeting["id"]] = {...} for every new meeting
Recorded(meetings_dict, new_meetings) ==
  { m \in meetings_dict : \A doc \in new_meetings : doc.id # m.id }
    \cup { [id |-> doc.id, skipped |-> FALSE] : doc \in new_meetings }

\* lines 441-481: the files written and the state saved by one run
SyncRun(state, new_meetings) ==
  /\ written' = { doc.id : doc \in new_meetings }
  /\ sync_state' =
       [exists |-> TRUE,
        json |-> [last_sync |-> Stamp(now),
                  meetings |-> Recorded(Get(state, "meetings", { }), new_meetings)]]

SyncWith(state) == SyncRun(state, extract_new_meetings(documents, state, now))

\* sync_meetings (lines 434-481): one run of the script
sync_meetings ==
  /\ SyncWith(load_sync_state(sync_state))
  /\ UNCHANGED << now, documents, bot_vars, extract_vars >>

\* half a day passes
Advance ==
  /\ now < FirstInstant + MaxClock
  /\ now' = now + 1
  /\ UNCHANGED << documents, sync_state, written, bot_vars, extract_vars >>

\* Granola adds a document to its cache, now or with a lag (lines 295-297)
CacheGains ==
  /\ \E id \in DocIds, created_at \in { 0, now - 1, now },
        deleted_at \in BOOLEAN, valid_meeting \in BOOLEAN :
       /\ \A doc \in documents : doc.id # id
       /\ documents' = documents \cup { Document(id, created_at, deleted_at, valid_meeting) }
  /\ UNCHANGED << now, sync_state, written, bot_vars, extract_vars >>

\* a state file of the earlier format: the ids synced so far, saved this
\* afternoon; their documents were created this morning or long ago
LegacyFiles ==
  { [exists |-> TRUE,
     json |-> [last_sync |-> Stamp(FirstInstant), synced_ids |-> ids]] :
      ids \in SUBSET DocIds }

InitSync ==
  /\ BotInit
  /\ ExtractIdle
  /\ now = FirstInstant
  /\ written = { }
  /\ sync_state \in { [exists |-> FALSE] } \cup LegacyFiles
  /\ IF sync_state.exists
     THEN documents \in { docs \in SUBSET { Document(id, created_at, FALSE, TRUE) :
                                             id \in sync_state.json.synced_ids,
                                             created_at \in { 0, FirstInstant - 1 } } :
                            \A id \in sync_state.json.synced_ids :
                              Cardinality({ doc \in docs : doc.id = id }) = 1 }
     ELSE documents = { }

NextSync == sync_meetings \/ Advance \/ CacheGains

SpecSync == InitSync /\ [][NextSync]_vars

(***************************************************************************)
(* Properties.                                                             *)
(***************************************************************************)
\* a checklist (not the "no items" notice) has been posted
ChecklistPosted == posted # << >> /\ meetings # << >>

\* the groups in rendering order
AllGroups == katie_items \o other_meetings

\* the self tag of the speaker, with the space that follows it
OwnerTag == << "(", "m", "e", ")", " " >>

\* "katie" occurs in item as a whole word, in any case
NamesKatie(item) ==
  \E k \in 1..Len(item) :
    /\ k + 4 <= Len(item)
    /\ LowerOf(SubSeq(item, k, k + 4)) = Katie
    /\ (k > 1 => ~IsWordChar(item[k - 1]))
    /\ (k + 5 <= Len(item) => ~IsWordChar(item[k + 5]))

IsOwnerItem(item) == StartsWith(item, OwnerTag) \/ NamesKatie(item)

IsNotOwnerItem(item) == ~IsOwnerItem(item)

HasItems(group) == group.items # << >>

\* the groups of ms cut down to the items that pass Test, empty groups dropped
GroupsKeeping(ms, Test(_)) ==
  SelectSeq([k \in DOMAIN ms |->
               [title |-> ms[k].title, items |-> SelectSeq(ms[k].items, Test)]],
            HasItems)

\* C8: split_katie_items partitions the items: the owner list is the input
\* cut down to the items that start with "(me) " or contain the whole word
\* "katie", the other list is the input cut down to the remaining items;
\* item order and group order are kept, a group is emitted into a list iff
\* it has an item of that kind, and nothing is lost or duplicated.
SplitIsPartition ==
  posted # << >> =>
    /\ katie_items = GroupsKeeping(meetings, IsOwnerItem)
    /\ other_meetings = GroupsKeeping(meetings, IsNotOwnerItem)

\* one meeting went to both lists, with two owner items and one other item
\* that carries "katie" inside a longer word and a tag that begins like "(me)"
SplitIsPartitionWitness ==
  /\ posted # << >>
  /\ \E a \in DOMAIN katie_items, b \in DOMAIN other_meetings :
       /\ katie_items[a].title = other_meetings[b].title
       /\ katie_items[a].items = << ItemMe, ItemKatie >>
       /\ other_meetings[b].items = << ItemMeg >>

\* the blocks of a checklist that carry a block_id, in display order
HasBlockId(block) == "block_id" \in DOMAIN block

IdBlocks(blocks) == SelectSeq(blocks, HasBlockId)

OptionKeys == << << "m" >>, << "i" >>, << "t", "e", "x", "t" >> >>

\* the option shows item and its value is the JSON object {m, i, text}
OptionCarries(opt, m_idx, i_idx, item) ==
  /\ opt.text.text = item
  /\ JsonLoads(opt.value).ok
  /\ JsonLoads(opt.value).v = PyDict(OptionKeys, << PyInt(m_idx), PyInt(i_idx), PyStr(item) >>)

\* C9: the k-th group of owner-list ++ other-list (k from 0) is rendered as
\* the k-th title block, with block id meeting_title_k, followed by its
\* actions block, with block id meeting_actions_k, whose options carry
\* group index k and item indices 0..n-1 in item order; no other block has
\* a block id.
OwnerFirstNumbering ==
  ChecklistPosted =>
    /\ Len(IdBlocks(posted)) = 2 * Len(AllGroups)
    /\ \A k \in DOMAIN AllGroups :
         /\ IdBlocks(posted)[2 * k - 1].block_id = << "meeting_title_" >> \o IntToChars(k - 1)
         /\ IdBlocks(posted)[2 * k - 1].text.text = << "*" >> \o AllGroups[k].title \o << "*" >>
         /\ IdBlocks(posted)[2 * k].block_id = << "meeting_actions_" >> \o IntToChars(k - 1)
         /\ Len(IdBlocks(posted)[2 * k].elements[1].options) = Len(AllGroups[k].items)
         /\ \A j \in DOMAIN AllGroups[k].items :
              OptionCarries(IdBlocks(posted)[2 * k].elements[1].options[j],
                            k - 1, j - 1, AllGroups[k].items[j])

\* the first meeting has no owner item and a later meeting has two: the
\* rendering order differs from the meeting order
OwnerFirstNumberingWitness ==
  /\ ChecklistPosted
  /\ katie_items # << >>
  /\ other_meetings # << >>
  /\ meetings[1].title = other_meetings[1].title
  /\ meetings[1].title # katie_items[1].title
  /\ Len(katie_items[1].items) = 2

\* C10: the "Your action items" label is present iff the owner list is not
\* empty; the "Other action items" label is present iff the other list is
\* not empty, and then it stands immediately before the title block of the
\* first other group.
SectionLabelsPlaced ==
  ChecklistPosted =>
    /\ (YourLabel \in Range(posted)) <=> (katie_items # << >>)
    /\ (OtherLabel \in Range(posted)) <=> (other_meetings # << >>)
    /\ other_meetings # << >> =>
         \E p \in DOMAIN posted :
           /\ posted[p] = OtherLabel
           /\ p + 1 <= Len(posted)
           /\ Get(posted[p + 1], "block_id", << >>)
                = << "meeting_title_" >> \o IntToChars(Len(katie_items))

\* C1: when the checked set of the first interaction holds the value of
\* every option of the posted checklist, the message becomes exactly the
\* one block of build_all_done_blocks.
AllCheckedIsAllDone ==
  [][(nclicks = 0 /\ nclicks' = 1 /\ ValuesOf(posted) \subseteq checked_so_far')
       => /\ message'.blocks = build_all_done_blocks(today)
          /\ Len(message'.blocks) = 1]_vars

\* a checklist of two groups has had every option checked at once
AllCheckedIsAllDoneWitness ==
  /\ ChecklistPosted
  /\ Len(AllGroups) >= 2
  /\ nclicks = 1
  /\ ValuesOf(posted) \subseteq checked_so_far
  /\ message.blocks = build_all_done_blocks(today)

\* the texts of the posted options that the values in checked name
NamedBy(checked) ==
  { opt.text.text : opt \in { o \in Range(OptionsOf(posted)) : o.value \in checked } }

NotYetChecked(opt) == opt.text.text \notin NamedBy(checked_so_far)

\* C2: after any number of reductions the options on display are exactly
\* the posted options whose text no checked value so far has named, in
\* their order, which are also the options a single reduction of the posted
\* checklist with all those values leaves; a removed option never returns.
MonotonicRemoval ==
  ChecklistPosted =>
    /\ OptionsOf(message.blocks) = SelectSeq(OptionsOf(posted), NotYetChecked)
    /\ OptionsOf(message.blocks)
         = OptionsOf(rebuild_blocks_after_check(posted, checked_so_far, today).blocks)

\* two reductions have removed two of three options between them
MonotonicRemovalWitness ==
  /\ ChecklistPosted
  /\ nclicks = 2
  /\ Len(OptionsOf(posted)) = 3
  /\ Cardinality(checked_so_far) = 2
  /\ Len(OptionsOf(message.blocks)) = 1
  /\ Len(AllGroups) = 2

\* C3: a further reduction whose checked values name no option on display
\* leaves the message as it is, block for block.
ReapplyIsNoOp ==
  [][(/\ nclicks >= 1
      /\ nclicks' = nclicks + 1
      /\ \A opt \in Range(OptionsOf(message.blocks)) :
           opt.text.text \notin NamedBy(checked_so_far'))
       => message'.blocks = message.blocks]_vars

NotDivider(block) == Get(block, "type", "") # "divider"

\* C4: a first reduction with no checked value keeps the header, the
\* labels, the title blocks and the actions blocks with all their options,
\* in order; only divider blocks differ.
EmptyCheckKeepsContent ==
  (ChecklistPosted /\ nclicks = 1 /\ checked_so_far = { })
    => SelectSeq(message.blocks, NotDivider) = SelectSeq(posted, NotDivider)

\* a checklist with both labels and two groups was reduced with no value,
\* and its dividers moved
EmptyCheckKeepsContentWitness ==
  /\ ChecklistPosted
  /\ nclicks = 1
  /\ checked_so_far = { }
  /\ katie_items # << >>
  /\ other_meetings # << >>
  /\ message.blocks # posted

\* C5: once every delivered interaction has been handled, no option on
\* display has a text that a checked value of those interactions names.
ConcurrentChecksSafe ==
  (ChecklistPosted /\ events = { })
    => \A opt \in Range(OptionsOf(message.blocks)) : NotYetChecked(opt)

\* C6: handle_checkbox never fails, whatever the checked values are.
OddValuesNeverFail == raised = "none"

\* C7: the value of every posted option decodes, as a checked value, to the
\* text the option shows, and an option whose value has been checked is not
\* on display any more.
OptionValueRoundTrip ==
  ChecklistPosted =>
    \A opt \in Range(OptionsOf(posted)) :
      /\ CheckedText(opt.value) = [exc |-> "none", v |-> PyStr(opt.text.text)]
      /\ opt.value \in checked_so_far => opt \notin Range(OptionsOf(message.blocks))

\* the options of a text with quotes and a backslash and of a text with a
\* non-ASCII letter have been checked, and another option is still shown
OptionValueRoundTripWitness ==
  /\ ChecklistPosted
  /\ nclicks >= 1
  /\ \E a, b \in Range(OptionsOf(posted)) :
       /\ a.text.text = ItemMe
       /\ b.text.text = ItemMeg
       /\ { a.value, b.value } \subseteq checked_so_far
  /\ OptionsOf(message.blocks) # << >>

(***************************************************************************)
(* Properties of the extraction (specification SpecExtract).               *)
(***************************************************************************)
\* the text of an action item "(speaker) text"
TextOf(item) == SubSeq(item, FirstAt(item, 1, LAMBDA c : c = ")") + 2, Len(item))

\* the speaker tag of an action item "(speaker) text"
SpeakerOf(item) == SubSeq(item, 2, FirstAt(item, 1, LAMBDA c : c = ")") - 1)

\* the lowercase first 60 characters of a text
LowerPrefix(text) == LowerOf(SubSeq(text, 1, IF Len(text) < 60 THEN Len(text) ELSE 60))

\* the positions of the actionable lines of a transcript
Actionable(lines) == { idx \in DOMAIN lines : lines[idx] \in ActionLines }

\* the actionable lines whose context is long enough to be emitted
Candidates(lines) == { idx \in Actionable(lines) : Len(Combined(lines, idx)) > 10 }

\* the candidates that no earlier candidate shares its key with
FirstOfKey(cands, keys) ==
  { idx \in cands : \A j \in cands : j < idx => keys[j] # keys[idx] }

\* the items are those of the candidates that come first with their key
FirstEmitted(lines, items, cands, contexts) ==
  Range(items) = { TaggedItem(lines[idx].speaker, contexts[idx]) :
                     idx \in FirstOfKey(cands, [j \in cands |-> LowerPrefix(contexts[j])]) }

ContextLines(lines, idx) ==
  LET Counts(k) == k <= Len(lines) /\ lines[k] \notin FillerLines
  IN  IF ~Counts(idx + 1) THEN << idx >>
      ELSE IF ~Counts(idx + 2) THEN << idx, idx + 1 >>
      ELSE << idx, idx + 1, idx + 2 >>

\* the texts of the lines at the given positions, joined and normalised
ContextOf(lines, at) ==
  CollapseWhitespace(Join([k \in DOMAIN at |-> lines[at[k]].text]))

\* C12: every extracted item is the context of an actionable line, made of
\* that line and the lines at idx+1 and idx+2 that exist, up to but
\* excluding the first filler line; every actionable line with a context of
\* more than 10 characters has its context's key among the items
ContextLookahead ==
  \A f \in DOMAIN extracted :
    /\ \A n \in DOMAIN extracted[f] :
         \E idx \in Actionable(files[f]) :
           extracted[f][n] = TaggedItem(files[f][idx].speaker,
                                        Truncate(ContextOf(files[f],
                                                           ContextLines(files[f], idx))))
    /\ \A idx \in Actionable(files[f]) :
         Len(ContextOf(files[f], ContextLines(files[f], idx))) > 10
           => \E n \in DOMAIN extracted[f] :
                LowerPrefix(TextOf(extracted[f][n]))
                  = LowerPrefix(ContextOf(files[f], ContextLines(files[f], idx)))

\* an actionable line was followed by a filler line and a further line, and
\* its item is the single line
ContextLookaheadWitness ==
  /\ Len(extracted) = 1
  /\ Len(files[1]) >= 3
  /\ files[1][1] \in ActionLines
  /\ files[1][2] \in FillerLines
  /\ files[1][3] \notin FillerLines
  /\ extracted[1] # << >>
  /\ extracted[1][1] = TaggedItem(files[1][1].speaker, CollapseWhitespace(files[1][1].text))

\* C13: the text of every extracted item has at most 203 characters, is the
\* normalised context of an actionable line when that has at most 200
\* characters and its first 200 characters followed by "..." otherwise, comes
\* from a context of more than 10 characters, and has no two adjacent
\* whitespace characters
LengthBound ==
  \A f \in DOMAIN extracted :
    \A n \in DOMAIN extracted[f] :
      /\ Len(TextOf(extracted[f][n])) <= 203
      /\ \A k \in 2..Len(extracted[f][n]) :
           extracted[f][n][k] \notin Whitespace \/ extracted[f][n][k - 1] \notin Whitespace
      /\ \E idx \in Actionable(files[f]) :
           LET context == ContextOf(files[f], ContextLines(files[f], idx))
           IN  /\ Len(context) > 10
               /\ SpeakerOf(extracted[f][n]) = files[f][idx].speaker
               /\ IF Len(context) > 200
                    THEN TextOf(extracted[f][n]) = SubSeq(context, 1, 200) \o << ".", ".", "." >>
                    ELSE TextOf(extracted[f][n]) = context

\* one item was cut to 203 characters, and an actionable line at the end of
\* the transcript, too short by itself, yielded nothing
LengthBoundWitness ==
  /\ Len(extracted) = 1
  /\ \E n \in DOMAIN extracted[1] : Len(TextOf(extracted[1][n])) = 203
  /\ files[1] # << >>
  /\ files[1][Len(files[1])] \in ActionLines
  /\ Len(files[1][Len(files[1])].text) <= 10

(***************************************************************************)
(* Properties of the reducer on checklists with initial_options and with   *)
(* plain-text option values (specification SpecLegacy).                    *)
(***************************************************************************)
\* the text an option value stands for: the "text" of the JSON object, or
\* the value itself when it is plain text
DecodedText(value) ==
  IF LoadsText(value).exc = "none" THEN LoadsText(value).v ELSE PyStr(value)

\* whether the option is still displayed in the group with the block id
Retained(blocks, block_id, option) ==
  \E b \in DOMAIN blocks :
    /\ Get(blocks[b], "type", "") = "actions"
    /\ Get(blocks[b], "block_id", << >>) = block_id
    /\ option \in Range(blocks[b].elements[1].options)

InitialTexts(element) ==
  { DecodedText(Get(element, "initial_options", << >>)[k].value) :
      k \in DOMAIN Get(element, "initial_options", << >>) }

\* the rule of the claim for the reduction r of blocks with the checked texts
PerGroupRule(blocks, checked_texts, r) ==
  r.exc = "none" =>
    \A b \in DOMAIN blocks :
      Get(blocks[b], "type", "") = "actions" =>
        \A k \in DOMAIN blocks[b].elements[1].options :
          Retained(r.blocks, blocks[b].block_id, blocks[b].elements[1].options[k])
            <=> /\ DecodedText(blocks[b].elements[1].options[k].value) \notin checked_texts
                /\ DecodedText(blocks[b].elements[1].options[k].value)
                     \notin InitialTexts(blocks[b].elements[1])

\* C14: whatever the user checks next, the reduction removes an option of a
\* group exactly when its decoded text is checked or is the text of one of
\* the initial_options of that same group
PerGroupRemoval ==
  \A checked_values \in SUBSET ValuesOf(posted) :
    PerGroupRule(message.blocks, CheckedTexts(checked_values).texts,
                 rebuild_blocks_after_check(message.blocks, checked_values, today))

IsPlainText(value) == ~JsonLoads(value).ok

\* the reduction r completes, and an option with a plain-text value is
\* retained exactly when its value is not checked
PlainTextRule(blocks, checked_values, r) ==
  /\ r.exc = "none"
  /\ \A b \in DOMAIN blocks :
       Get(blocks[b], "type", "") = "actions" =>
         \A k \in DOMAIN blocks[b].elements[1].options :
           IsPlainText(blocks[b].elements[1].options[k].value) =>
             (Retained(r.blocks, blocks[b].block_id, blocks[b].elements[1].options[k])
                <=> blocks[b].elements[1].options[k].value \notin checked_values)

\* C17: whatever the user checks next on a checklist with plain-text option
\* values, the reduction completes without error, removes a plain-text
\* option whose value is checked and retains the others
LegacyOptionsHandled ==
  \A checked_values \in SUBSET ValuesOf(posted) :
    PlainTextRule(message.blocks, checked_values,
                  rebuild_blocks_after_check(message.blocks, checked_values, today))

(***************************************************************************)
(* Properties of the message after any number of reductions                *)
(* (specification Spec).                                                   *)
(***************************************************************************)
IsActions(block) == Get(block, "type", "") = "actions"

\* a can be obtained from b by leaving elements out
RECURSIVE IsSubseq(_, _)
IsSubseq(a, b) ==
  IF a = << >> THEN TRUE
  ELSE IF b = << >> THEN FALSE
  ELSE IF Head(a) = Head(b) THEN IsSubseq(Tail(a), Tail(b))
  ELSE IsSubseq(a, Tail(b))

BlockIds(blocks) == [k \in DOMAIN blocks |-> blocks[k].block_id]

\* the actions block at position b of shown is a posted group cut down: same
\* block id and action id, options as posted and in the posted order, and
\* the posted title block in front of it
GroupAsPosted(shown, b, then) ==
  \E p \in DOMAIN then :
    /\ IsActions(then[p])
    /\ then[p].block_id = shown[b].block_id
    /\ then[p].elements[1].action_id = shown[b].elements[1].action_id
    /\ IsSubseq(shown[b].elements[1].options, then[p].elements[1].options)
    /\ b > 1
    /\ IsTitleBlock(then[p - 1])
    /\ shown[b - 1] = then[p - 1]

\* C15: after any sequence of reductions every option on display is an
\* option of the posted checklist with its value and text, the options of
\* a group and the groups are in the posted order, and every group on
\* display has its posted title block, block id and action id
RetainedUntouched ==
  /\ IsSubseq(BlockIds(SelectSeq(message.blocks, IsActions)),
              BlockIds(SelectSeq(posted, IsActions)))
  /\ \A b \in DOMAIN message.blocks :
       IsActions(message.blocks[b]) => GroupAsPosted(message.blocks, b, posted)

\* after two reductions one group is gone, and another has lost one of its
\* options and kept one
RetainedUntouchedWitness ==
  /\ nclicks = 2
  /\ raised = "none"
  /\ Len(SelectSeq(message.blocks, IsActions)) = 1
  /\ Len(SelectSeq(posted, IsActions)) = 2
  /\ \E b \in DOMAIN message.blocks, p \in DOMAIN posted :
       /\ IsActions(message.blocks[b])
       /\ IsActions(posted[p])
       /\ posted[p].block_id = message.blocks[b].block_id
       /\ Len(message.blocks[b].elements[1].options) = 1
       /\ Len(posted[p].elements[1].options) = 2

\* an actions block reduced to its block id, any other block as it is
Outline(blocks) ==
  [k \in DOMAIN blocks |->
     IF IsActions(blocks[k]) THEN [type |-> "actions", block_id |-> blocks[k].block_id]
     ELSE blocks[k]]

\* the struck-through marker that stands for the group of the title block
MarkerOf(title_block) ==
  [type |-> "section",
   text |-> [type |-> "mrkdwn",
             text |-> << "~" >> \o Strip(title_block.text.text, "*")
                        \o << "~ - all done :white_check_mark:" >>]]

\* the posted blocks other than dividers, with every group that has no
\* actions block among ids replaced by its marker
RECURSIVE WithMarkers(_, _)
WithMarkers(blocks, ids) ==
  IF blocks = << >> THEN << >>
  ELSE IF IsTitleBlock(Head(blocks)) /\ blocks[2].block_id \notin ids
    THEN << MarkerOf(Head(blocks)) >> \o WithMarkers(Tail(Tail(blocks)), ids)
  ELSE << Head(blocks) >> \o WithMarkers(Tail(blocks), ids)

\* the blocks other than dividers are the posted ones, in place, with a
\* marker where a group has no options left
MarkersInPlace(shown, then) ==
  Outline(SelectSeq(shown, NotDivider))
    = WithMarkers(Outline(SelectSeq(then, NotDivider)),
                  Range(BlockIds(SelectSeq(shown, IsActions))))

\* the marker of a group that was on display in before has a divider in
\* front of it in after
MarkersFollowDivider(before, after) ==
  \A b \in DOMAIN before :
    (IsActions(before[b]) /\ before[b].block_id \notin Range(BlockIds(SelectSeq(after, IsActions))))
      => \E a \in DOMAIN after :
           /\ after[a] = MarkerOf(before[b - 1])
           /\ a > 1
           /\ after[a - 1] = Divider

\* C16: a reduction that leaves options on display puts, for every group it
\* leaves without options, a divider and one struck-through marker where
\* the group was; the header, the labels and the markers of groups emptied
\* before stay where they are among the blocks other than dividers
GroupCompletionMarker ==
  [][(/\ nclicks' = nclicks + 1
      /\ raised' = "none"
      /\ OptionsOf(message'.blocks) # << >>)
       => /\ MarkersInPlace(message'.blocks, posted)
          /\ MarkersFollowDivider(message.blocks, message'.blocks)]_vars

\* a second reduction left options on display, with the marker of a group
\* that the first reduction had emptied and the marker of a group that the
\* second emptied
GroupCompletionMarkerWitness ==
  /\ nclicks = 2
  /\ raised = "none"
  /\ OptionsOf(message.blocks) # << >>
  /\ Len(SelectSeq(posted, IsActions)) - Len(SelectSeq(message.blocks, IsActions)) >= 1
  /\ \E b \in DOMAIN message.blocks :
       /\ b > 1
       /\ \E p \in DOMAIN posted :
            IsTitleBlock(posted[p]) /\ message.blocks[b] = MarkerOf(posted[p])
       /\ message.blocks[b - 1] # Divider

\* the all-items-completed block set, of any day
IsAllDone(blocks) ==
  \E d \in { "posting day", "a later day" } : blocks = build_all_done_blocks(d)

\* checked values that name no option of the checklist: plain text, a JSON
\* object with an unknown text, a JSON object without text
UnknownValues ==
  { << "d", "o", "n", "e" >>,
    DumpsOption(7, 0, << "n", "o", "n", "e" >>),
    << "{", "\"", "m", "\"", ":", " ", "0", "}" >> }

\* the checked sets of a further interaction: any of the values checked
\* before, one unknown value, or all of them together
CheckedSets(values) ==
  (SUBSET values) \cup { { val } : val \in UnknownValues } \cup { values \cup UnknownValues }

\* the reduction of the all-items-completed block with any of the checked
\* sets is the all-items-completed block of the day
ReducesToAllDone ==
  IsAllDone(message.blocks) =>
    \A checked_values \in CheckedSets(ValuesOf(posted)) :
      rebuild_blocks_after_check(message.blocks, checked_values, today)
        = Return(build_all_done_blocks(today))

\* C18: once the message is the all-items-completed block, the reduction of
\* it with any checked set (empty, values checked before, unknown values)
\* returns the all-items-completed block again, and no step of the bot
\* brings options back
AllDoneIsAbsorbing ==
  /\ []ReducesToAllDone
  /\ [][IsAllDone(message.blocks) => IsAllDone(message'.blocks)]_vars

\* the all-items-completed block was reduced again after midnight: it
\* carries the new date
AllDoneIsAbsorbingWitness ==
  /\ nclicks = 2
  /\ raised = "none"
  /\ posted = build_interactive_blocks(meetings, "posting day")
  /\ message.blocks = build_all_done_blocks("a later day")

\* the group index that a block id ends with
GroupIndexOf(block_id) == Tail(block_id)

\* the first block is the header, every actions block has an option and
\* follows the title block of its group, and no block id occurs twice
WellFormed(blocks) ==
  /\ blocks # << >>
  /\ Get(blocks[1], "type", "") = "header"
  /\ \A b \in DOMAIN blocks :
       IsActions(blocks[b]) =>
         /\ blocks[b].elements[1].options # << >>
         /\ b > 1
         /\ IsTitleBlock(blocks[b - 1])
         /\ GroupIndexOf(blocks[b - 1].block_id) = GroupIndexOf(blocks[b].block_id)
  /\ \A b, c \in DOMAIN blocks :
       (HasBlockId(blocks[b]) /\ HasBlockId(blocks[c]) /\ b # c)
         => blocks[b].block_id # blocks[c].block_id

\* C19: a checklist rendered for at least one item is, after any number of
\* reductions, either the single all-items-completed block or a header
\* followed by blocks in which every actions block has an option and comes
\* right after the title block of its group, with pairwise distinct block
\* ids; the remaining count of handle_checkbox is zero exactly in the first
\* case
StructuralInvariant ==
  ChecklistPosted =>
    /\ IsAllDone(message.blocks) \/ WellFormed(message.blocks)
    /\ TotalRemaining(message.blocks) = 0 <=> IsAllDone(message.blocks)

\* two reductions have left one group with options and the marker of another
StructuralInvariantWitness ==
  /\ ChecklistPosted
  /\ nclicks = 2
  /\ TotalRemaining(message.blocks) > 0
  /\ TotalRemaining(message.blocks) < TotalRemaining(posted)
  /\ Len(SelectSeq(message.blocks, IsActions)) < Len(SelectSeq(posted, IsActions))
  /\ message.text = IntToChars(TotalRemaining(message.blocks))
                      \o << " action item(s) remaining" >>

(***************************************************************************)
(* Properties of the meeting sync (specification SpecSync).                *)
(***************************************************************************)
\* the ids that a sync state file records, under meetings or synced_ids
RecordedIds(file) ==
  IF ~file.exists THEN { }
  ELSE { m.id : m \in Get(file.json, "meetings", { }) }
         \cup Get(file.json, "synced_ids", { })

\* C20: a run of sync_meetings writes no meeting whose id the sync state
\* file recorded before the run, under meetings or under synced_ids, and
\* records every meeting it writes in the state it saves
NoMeetingSyncedTwice ==
  [][(sync_state' # sync_state \/ written' # written)
       => /\ written' \cap RecordedIds(sync_state) = { }
          /\ written' \subseteq RecordedIds(sync_state')]_vars

====
